---- MODULE Spec2Model ----
(***************************************************************************)
(* TrackedState<Q> (src/src/main.rs): a named cell holding an optional     *)
(* value and the location of its last write, and the Battery that groups   *)
(* three such cells.  Spec drives the cells of one Battery either with     *)
(* arbitrary sequences of method calls or the way fn main does.            *)
(*                                                                         *)
(* Option<X> is modelled as a sequence of length at most one:              *)
(* None is <<>> and Some(x) is <<x>>.                                      *)
(***************************************************************************)
EXTENDS Integers, Sequences, TLC

VARIABLES
    cells,   \* the Battery's fields: cell id -> TrackedState record
    last,    \* the call that produced this state: method, receiver, inputs, result, receiver before the call
    panic,   \* None while the program runs, Some(message) once an assert! has failed
    ctl      \* who drives the Battery and where that caller stands

vars == <<cells, last, panic, ctl>>

\* Largest value of the cells' payload type Q used by the calls.
MaxVal == 1

Values == 0..MaxVal

None == <<>>

Some(x) == <<x>>

is_some(o) == o # None

\* The fields of Battery, each one TrackedState.
CellIds == {"temperature", "power_output", "dimensions"}

\* The name Battery::new gives to each field's cell.
CellName(c) ==
    CASE c = "temperature" -> "battery_temperature"
      [] c = "power_output" -> "battery_power_output"
      [] c = "dimensions" -> "battery_dimensions"

\* Lines of main that call a method of a cell; the call site belongs to the
\* caller and is not passed to the method.
Sites == {148, 179}

\* file!() inside src/main.rs
FILE == "src/main.rs"

\* line!() inside update
UPDATE_LINE == 28

\* line!() inside map_mut
MAP_MUT_LINE == 69

\* format!("{}:{}", file!(), line!())
Format(file, line) == file \o ":" \o ToString(line)

\* Closures handed to map: |temp| temp.get::<kelvin>() - 273.15 (values are
\* kept in hundredths) and two others.
MapFns == {"to_celsius", "double", "zero"}

ApplyMap(f, v) ==
    CASE f = "to_celsius" -> v - 27315
      [] f = "double" -> 2 * v
      [] f = "zero" -> 0

\* Closures handed to map_mut by an arbitrary caller: *temp = temp + step
\* (kept inside Values), one that overwrites with a constant, one that leaves
\* the value alone.  main's closure is "add5": *temp = temp + 5.0 kelvin.
MutFns == {"add", "clear", "keep"}

ApplyMut(f, v) ==
    CASE f = "add" -> (v + 1) % (MaxVal + 1)
      [] f = "clear" -> 0
      [] f = "keep" -> v
      [] f = "add5" -> v + 500

----------------------------------------------------------------------------
(* The methods of TrackedState, as functions of the receiver. *)

new_empty_name(name) ==
    [value |-> None, update_location |-> None, name |-> ""]

new(name) ==
    [value |-> None, update_location |-> None, name |-> name]

update_keeps_first(self, value) ==
    IF is_some(self.value)
    THEN self
    ELSE [self EXCEPT !.value = Some(value),
                      !.update_location = Some(Format(FILE, UPDATE_LINE))]

update(self, value) ==
    [self EXCEPT !.value = Some(value),
                 !.update_location = Some(Format(FILE, UPDATE_LINE))]

reset_location_only(self) ==
    [self EXCEPT !.update_location = None]

reset_records_location(self) ==
    [self EXCEPT !.value = None, !.update_location = Some(Format(FILE, 33))]

reset_value_only(self) ==
    [self EXCEPT !.value = None]

reset(self) ==
    [self EXCEPT !.value = None, !.update_location = None]

assert_updated_never_fails(self) == None

\* The outcome of assert!(self.value.is_some(), ...): None when the assertion
\* holds, Some(panic message) when it fails.
assert_updated(self) ==
    IF is_some(self.value)
    THEN None
    ELSE Some("State variable '" \o self.name \o "' was not updated!")

get(self) == self.value

get_with_location_name(self) ==
    IF is_some(self.value) /\ is_some(self.update_location)
    THEN Some(<<self.value[1], self.name>>)
    ELSE None

get_with_location(self) ==
    IF is_some(self.value) /\ is_some(self.update_location)
    THEN Some(<<self.value[1], self.update_location[1]>>)
    ELSE None

map(self, f) ==
    IF is_some(self.value) THEN Some(ApplyMap(f, self.value[1])) ELSE None

map_mut_stale_location(self, f) ==
    IF is_some(self.value)
    THEN [self EXCEPT !.value = Some(ApplyMut(f, self.value[1]))]
    ELSE self

map_mut_unconditional_location(self, f) ==
    IF is_some(self.value)
    THEN [self EXCEPT !.value = Some(ApplyMut(f, self.value[1])),
                      !.update_location = Some(Format(FILE, MAP_MUT_LINE))]
    ELSE [self EXCEPT !.update_location = Some(Format(FILE, MAP_MUT_LINE))]

map_mut(self, f) ==
    IF is_some(self.value)
    THEN [self EXCEPT !.value = Some(ApplyMut(f, self.value[1])),
                      !.update_location = Some(Format(FILE, MAP_MUT_LINE))]
    ELSE self

----------------------------------------------------------------------------
(* The calls of the methods on the cells of the Battery. *)

\* The record of one call.  arg is Some(value) for update, f the closure of
\* map and map_mut, ret what the call returned (None for a unit return).
Call(op, c, site, arg, f, ret) ==
    [op |-> op, cell |-> c, site |-> site, arg |-> arg, f |-> f,
     ret |-> ret, pre |-> cells[c]]

\* A panic unwinds out of main: nothing runs after it.
Running == panic = None

\* update under the strict policy: a second write without a reset in between
\* fails an assert! and stores nothing.
CallUpdate_strict(c, v, site) ==
    /\ last' = Call("update", c, site, Some(v), "", None)
    /\ panic' = IF is_some(cells[c].value)
                THEN Some("State variable '" \o cells[c].name \o "' was already updated!")
                ELSE None
    /\ cells' = IF is_some(cells[c].value)
                THEN cells
                ELSE [cells EXCEPT ![c] = update(cells[c], v)]

CallUpdate(c, v, site) ==
    /\ last' = Call("update", c, site, Some(v), "", None)
    /\ cells' = [cells EXCEPT ![c] = update(cells[c], v)]
    /\ UNCHANGED panic

\* A reset that clears every cell of the Battery, not only the receiver.
CallReset_all(c, site) ==
    /\ last' = Call("reset", c, site, None, "", None)
    /\ cells' = [d \in CellIds |-> reset(cells[d])]
    /\ UNCHANGED panic

CallReset(c, site) ==
    /\ last' = Call("reset", c, site, None, "", None)
    /\ cells' = [cells EXCEPT ![c] = reset(cells[c])]
    /\ UNCHANGED panic

CallAssertUpdated(c, site) ==
    /\ last' = Call("assert_updated", c, site, None, "", None)
    /\ panic' = assert_updated(cells[c])
    /\ UNCHANGED cells

\* A getter written with Option::take, which moves the value out of the cell.
CallGet_takes(c, site) ==
    /\ last' = Call("get", c, site, None, "", get(cells[c]))
    /\ cells' = [cells EXCEPT ![c].value = None, ![c].update_location = None]
    /\ UNCHANGED panic

CallGet(c, site) ==
    /\ last' = Call("get", c, site, None, "", get(cells[c]))
    /\ UNCHANGED <<cells, panic>>

CallGetWithLocation(c, site) ==
    /\ last' = Call("get_with_location", c, site, None, "", get_with_location(cells[c]))
    /\ UNCHANGED <<cells, panic>>

\* A map that stores the closure's result back into the cell.
CallMap_stores(c, f, site) ==
    /\ last' = Call("map", c, site, None, f, map(cells[c], f))
    /\ cells' = [cells EXCEPT ![c].value =
                    IF is_some(@) THEN Some(ApplyMap(f, @[1]) % (MaxVal + 1)) ELSE @]
    /\ UNCHANGED panic

CallMap(c, f, site) ==
    /\ last' = Call("map", c, site, None, f, map(cells[c], f))
    /\ UNCHANGED <<cells, panic>>

CallMapMut(c, f, site) ==
    /\ last' = Call("map_mut", c, site, None, f, None)
    /\ cells' = [cells EXCEPT ![c] = map_mut(cells[c], f)]
    /\ UNCHANGED panic

----------------------------------------------------------------------------
(* Control.  ctl.client is "main" when fn main drives the Battery and "any" *)
(* when an arbitrary caller does.  ctl.pc is the statement to run next: a   *)
(* line of main ("main:155"), a line of a Battery method ("110"), a point   *)
(* of a caller's cycle ("cycle:update_state") or "idle"; ctl.ra is where    *)
(* the running Battery method returns to.  ctl.step and ctl.power_draw are  *)
(* main's loop variable and update_state's parameter.  ctl.writes counts    *)
(* the update calls on each cell since the last call of                     *)
(* reset_tracked_states, and ctl.checked holds the cells whose              *)
(* assert_updated has passed since then.                                    *)

IdleCtl ==
    [client |-> "any", pc |-> "idle", ra |-> "idle", step |-> 0, power_draw |-> 0,
     checked |-> {}, writes |-> [c \in CellIds |-> 0]]

MainCtl == [IdleCtl EXCEPT !.client = "main", !.pc = "main:148", !.ra = "none"]

\* Battery::new(): the three cells are constructed, dimensions last.  After
\* it either main runs or an arbitrary caller uses the Battery.
Init ==
    /\ cells = [c \in CellIds |-> new(CellName(c))]
    /\ last = [op |-> "new", cell |-> "dimensions", site |-> 92, arg |-> None,
               f |-> "", ret |-> None, pre |-> new(CellName("dimensions"))]
    /\ panic = None
    /\ ctl \in {IdleCtl, MainCtl}

Idle == ctl.pc = "idle"

InMain == ctl.client = "main"

Goto(pc) == [ctl EXCEPT !.pc = pc]

\* Entering a Battery method whose first statement is at pc.
Enter(pc, ra) == [ctl EXCEPT !.pc = pc, !.ra = ra]

\* Leaving a Battery method; a caller back at "idle" keeps nothing of the cycle.
Return(c) == IF c.ra = "idle" THEN IdleCtl ELSE [c EXCEPT !.pc = c.ra, !.ra = "none"]

Wrote(c, k) == [c EXCEPT !.writes[k] = @ + 1]

Checked(c, k) == [c EXCEPT !.checked = @ \cup {k}]

----------------------------------------------------------------------------
(* An arbitrary caller: any method of any cell, any Battery method, and the *)
(* cycle reset_tracked_states, update_state, assert_all_updated.            *)

Update(c) ==
    /\ Running /\ Idle
    /\ \E v \in Values, site \in Sites : CallUpdate(c, v, site)
    /\ UNCHANGED ctl

Reset(c) ==
    /\ Running /\ Idle
    /\ \E site \in Sites : CallReset(c, site)
    /\ UNCHANGED ctl

AssertUpdated(c) ==
    /\ Running /\ Idle
    /\ \E site \in Sites : CallAssertUpdated(c, site)
    /\ UNCHANGED ctl

Get(c) ==
    /\ Running /\ Idle
    /\ \E site \in Sites : CallGet(c, site)
    /\ UNCHANGED ctl

GetWithLocation(c) ==
    /\ Running /\ Idle
    /\ \E site \in Sites : CallGetWithLocation(c, site)
    /\ UNCHANGED ctl

Map(c) ==
    /\ Running /\ Idle
    /\ \E f \in MapFns, site \in Sites : CallMap(c, f, site)
    /\ UNCHANGED ctl

MapMut(c) ==
    /\ Running /\ Idle
    /\ \E f \in MutFns, site \in Sites : CallMapMut(c, f, site)
    /\ UNCHANGED ctl

\* One Battery method called on its own.
BatteryCall ==
    /\ Running /\ Idle
    /\ \/ ctl' = Enter("110", "idle")
       \/ \E pd \in Values : ctl' = [Enter("98", "idle") EXCEPT !.power_draw = pd]
       \/ ctl' = Enter("116", "idle")
       \/ ctl' = Enter("123", "idle")
    /\ UNCHANGED <<cells, last, panic>>

\* The cycle: reset_tracked_states(), update_state(..), assert_all_updated().
Cycle ==
    /\ Running
    /\ \/ /\ Idle
          /\ ctl' = Enter("110", "cycle:update_state")
       \/ /\ ctl.pc = "cycle:update_state"
          /\ \E pd \in Values :
                ctl' = [Enter("98", "cycle:assert_all_updated") EXCEPT !.power_draw = pd]
       \/ /\ ctl.pc = "cycle:assert_all_updated"
          /\ ctl' = Enter("116", "cycle:end")
       \/ /\ ctl.pc = "cycle:end"
          /\ ctl' = IdleCtl
    /\ UNCHANGED <<cells, last, panic>>

----------------------------------------------------------------------------
(* The methods of Battery, one step per call on a cell. *)

\* 300.0 + power_draw.get::<watt>() * 0.01, on values kept in hundredths.
Temperature(power_draw) == 30000 + power_draw \div 100

UpdateState ==
    /\ Running
    /\ \/ /\ ctl.pc = "98"
          /\ CallUpdate("temperature", Temperature(ctl.power_draw), 98)
          /\ ctl' = Wrote(Goto("104"), "temperature")
       \/ /\ ctl.pc = "104"
          /\ CallUpdate("power_output", ctl.power_draw, 104)
          /\ ctl' = Return(Wrote(ctl, "power_output"))

\* reset_tracked_states without its last line: dimensions is left alone.
ResetTrackedStates_skips_dimensions ==
    /\ Running
    /\ \/ /\ ctl.pc = "110"
          /\ CallReset("temperature", 110)
          /\ ctl' = [Goto("111") EXCEPT !.checked = {},
                                        !.writes = [c \in CellIds |-> 0]]
       \/ /\ ctl.pc = "111"
          /\ CallReset("power_output", 111)
          /\ ctl' = Return(ctl)

ResetTrackedStates ==
    /\ Running
    /\ \/ /\ ctl.pc = "110"
          /\ CallReset("temperature", 110)
          /\ ctl' = [Goto("111") EXCEPT !.checked = {},
                                        !.writes = [c \in CellIds |-> 0]]
       \/ /\ ctl.pc = "111"
          /\ CallReset("power_output", 111)
          /\ ctl' = Goto("112")
       \/ /\ ctl.pc = "112"
          /\ CallReset("dimensions", 112)
          /\ ctl' = Return(ctl)

\* One assert_updated of assert_all_updated: on a panic control stays where it is.
AssertStep(c, site, next) ==
    /\ CallAssertUpdated(c, site)
    /\ ctl' = IF assert_updated(cells[c]) = None THEN next ELSE ctl

\* assert_all_updated without its last line: dimensions is not checked.
AssertAllUpdated_skips_dimensions ==
    /\ Running
    /\ \/ /\ ctl.pc = "116"
          /\ AssertStep("temperature", 116, Checked(Goto("117"), "temperature"))
       \/ /\ ctl.pc = "117"
          /\ AssertStep("power_output", 117, Return(Checked(ctl, "power_output")))

AssertAllUpdated ==
    /\ Running
    /\ \/ /\ ctl.pc = "116"
          /\ AssertStep("temperature", 116, Checked(Goto("117"), "temperature"))
       \/ /\ ctl.pc = "117"
          /\ AssertStep("power_output", 117, Checked(Goto("118"), "power_output"))
       \/ /\ ctl.pc = "118"
          /\ AssertStep("dimensions", 118, Return(Checked(ctl, "dimensions")))

PrintDebugInfo ==
    /\ Running
    /\ \/ /\ ctl.pc = "123"
          /\ CallGetWithLocation("temperature", 123)
          /\ ctl' = Goto("129")
       \/ /\ ctl.pc = "129"
          /\ CallGetWithLocation("power_output", 129)
          /\ ctl' = Goto("135")
       \/ /\ ctl.pc = "135"
          /\ CallGetWithLocation("dimensions", 135)
          /\ ctl' = Return(ctl)

----------------------------------------------------------------------------
(* fn main, one step per statement that calls into the Battery. *)

\* for step in 0..3
NSTEPS == 3

\* Length::new::<meter>(0.5), in hundredths
DIMENSIONS == 50

\* Power::new::<watt>(1000.0 * (step as f64 + 1.0)), in hundredths
PowerDraw(step) == 100000 * (step + 1)

\* Option::unwrap
unwrap(o) ==
    IF is_some(o) THEN None ELSE Some("called Option::unwrap() on a None value")

Main_148 ==
    /\ ctl.pc = "main:148"
    /\ CallUpdate("dimensions", DIMENSIONS, 148)
    /\ ctl' = Wrote(Goto("main:151"), "dimensions")

\* for step in 0..=3
Main_151_inclusive ==
    /\ ctl.pc = "main:151"
    /\ ctl' = IF ctl.step <= NSTEPS THEN Goto("main:155") ELSE Goto("main:184")
    /\ UNCHANGED <<cells, last, panic>>

Main_151 ==
    /\ ctl.pc = "main:151"
    /\ ctl' = IF ctl.step < NSTEPS THEN Goto("main:155") ELSE Goto("main:184")
    /\ UNCHANGED <<cells, last, panic>>

\* A loop body that does not reset the cells at its start.
Main_155_no_reset ==
    /\ ctl.pc = "main:155"
    /\ ctl' = Goto("main:160")
    /\ UNCHANGED <<cells, last, panic>>

Main_155 ==
    /\ ctl.pc = "main:155"
    /\ ctl' = Enter("110", "main:160")
    /\ UNCHANGED <<cells, last, panic>>

Main_160 ==
    /\ ctl.pc = "main:160"
    /\ ctl' = [Enter("98", "main:163") EXCEPT !.power_draw = PowerDraw(ctl.step)]
    /\ UNCHANGED <<cells, last, panic>>

Main_163 ==
    /\ ctl.pc = "main:163"
    /\ ctl' = Enter("123", "main:173")
    /\ UNCHANGED <<cells, last, panic>>

Main_173 ==
    /\ ctl.pc = "main:173"
    /\ AssertStep("temperature", 173, Checked(Goto("main:174"), "temperature"))

Main_174 ==
    /\ ctl.pc = "main:174"
    /\ AssertStep("power_output", 174, Checked(Goto("main:177"), "power_output"))

NextIteration(c) == [c EXCEPT !.pc = "main:151", !.step = @ + 1]

Main_177 ==
    /\ ctl.pc = "main:177"
    /\ CallGet("dimensions", 177)
    /\ ctl' = IF get(cells["dimensions"]) = None
              THEN Goto("main:179")
              ELSE NextIteration(ctl)

Main_179 ==
    /\ ctl.pc = "main:179"
    /\ CallUpdate("dimensions", DIMENSIONS, 179)
    /\ ctl' = NextIteration(Wrote(ctl, "dimensions"))

Main_184 ==
    /\ ctl.pc = "main:184"
    /\ CallGet("temperature", 184)
    /\ ctl' = Goto("main:189")

Main_189 ==
    /\ ctl.pc = "main:189"
    /\ last' = Call("map", "temperature", 189, None, "to_celsius",
                    map(cells["temperature"], "to_celsius"))
    /\ panic' = unwrap(map(cells["temperature"], "to_celsius"))
    /\ ctl' = IF is_some(map(cells["temperature"], "to_celsius"))
              THEN Goto("main:195") ELSE ctl
    /\ UNCHANGED cells

Main_195 ==
    /\ ctl.pc = "main:195"
    /\ CallMapMut("temperature", "add5", 195)
    /\ ctl' = Goto("main:201")

Main_201 ==
    /\ ctl.pc = "main:201"
    /\ last' = Call("get", "temperature", 201, None, "", get(cells["temperature"]))
    /\ panic' = unwrap(get(cells["temperature"]))
    /\ ctl' = IF is_some(get(cells["temperature"])) THEN Goto("main:203") ELSE ctl
    /\ UNCHANGED cells

Main_203 ==
    /\ ctl.pc = "main:203"
    /\ ctl' = Goto("main:end")
    /\ UNCHANGED <<cells, last, panic>>

Main ==
    /\ Running
    /\ \/ Main_148 \/ Main_151 \/ Main_155 \/ Main_160 \/ Main_163
       \/ Main_173 \/ Main_174 \/ Main_177 \/ Main_179
       \/ Main_184 \/ Main_189 \/ Main_195 \/ Main_201 \/ Main_203

Next ==
    \/ \E c \in CellIds :
        \/ Update(c)
        \/ Reset(c)
        \/ AssertUpdated(c)
        \/ Get(c)
        \/ GetWithLocation(c)
        \/ Map(c)
        \/ MapMut(c)
    \/ BatteryCall
    \/ Cycle
    \/ UpdateState
    \/ ResetTrackedStates
    \/ AssertAllUpdated
    \/ PrintDebugInfo
    \/ Main

Spec == Init /\ [][Next]_vars

----------------------------------------------------------------------------
(* Properties of the cells under arbitrary call sequences. *)

Cell(c) == cells[c]

Empty(st) == st.value = None /\ st.update_location = None

\* C1: in every reachable state and for every cell, update_location is
\* present if and only if value is present.
C1_LocationIffValue ==
    \A c \in CellIds :
        is_some(cells[c].update_location) <=> is_some(cells[c].value)

\* map_mut has run on a cell that held a value while another cell is empty.
C1_Witness ==
    /\ last.op = "map_mut"
    /\ is_some(cells[last.cell].value)
    /\ is_some(cells[last.cell].update_location)
    /\ \E c \in CellIds : cells[c].value = None /\ cells[c].update_location = None

\* C2: get() returns None right after new(name) and right after reset(),
\* whatever the cell held before, and returns Some(v) right after update(v).
C2_GetAfterNewResetUpdate ==
    /\ last.op = "new" => \A c \in CellIds : get(cells[c]) = None
    /\ last.op = "reset" => get(cells[last.cell]) = None
    /\ last.op = "update" => get(cells[last.cell]) = Some(last.arg[1])

\* reset has run on a cell that held a value.
C2_Witness ==
    /\ last.op = "reset"
    /\ is_some(last.pre.value)
    /\ get(cells[last.cell]) = None

\* C3: assert_updated() succeeds if and only if get() is Some(_); when get()
\* is None it panics.
C3_AssertGate ==
    last.op = "assert_updated" =>
        /\ (panic = None) <=> is_some(get(cells[last.cell]))
        /\ get(cells[last.cell]) = None => is_some(panic)

\* assert_updated has panicked on an empty cell.
C3_Witness ==
    /\ last.op = "assert_updated"
    /\ get(cells[last.cell]) = None
    /\ is_some(panic)

\* C4: update(v) never fails and overwrites: after update(v) the cell is
\* written and get() returns v, also when the cell already held a value.
C4_UpdateOverwrites ==
    last.op = "update" =>
        /\ panic = None
        /\ is_some(cells[last.cell].value)
        /\ is_some(cells[last.cell].update_location)
        /\ get(cells[last.cell]) = last.arg

\* update has run on a cell that held a different value.
C4_Witness ==
    /\ last.op = "update"
    /\ is_some(last.pre.value)
    /\ last.pre.value # last.arg
    /\ get(cells[last.cell]) = last.arg

\* C5: the only call that panics is assert_updated on an empty cell: new,
\* update, reset, get, get_with_location, map and map_mut never panic, and
\* neither does assert_updated on a written cell.
C5_OnlyAssertOnEmptyPanics ==
    /\ last.op \in {"new", "update", "reset", "get", "get_with_location",
                    "map", "map_mut"} => panic = None
    /\ (last.op = "assert_updated" /\ is_some(last.pre.value)) => panic = None
    /\ is_some(panic) => (last.op = "assert_updated" /\ last.pre.value = None)

\* assert_updated has passed on a written cell.
C5_Witness ==
    /\ last.op = "assert_updated"
    /\ is_some(last.pre.value)
    /\ panic = None

\* C6: map_mut(f) on a cell holding v leaves it written with get() = f(v) and
\* the location of map_mut's own write; on an empty cell it does not fail and
\* leaves value and location absent.
C6_MapMut ==
    last.op = "map_mut" =>
        /\ panic = None
        /\ IF is_some(last.pre.value)
           THEN /\ get(cells[last.cell]) = Some(ApplyMut(last.f, last.pre.value[1]))
                /\ cells[last.cell].update_location = Some("src/main.rs:69")
                /\ cells[last.cell].name = last.pre.name
           ELSE /\ cells[last.cell] = last.pre
                /\ get(cells[last.cell]) = None
                /\ cells[last.cell].update_location = None

\* map_mut has changed the value of a cell last written by update.
C6_Witness ==
    /\ last.op = "map_mut"
    /\ is_some(last.pre.value)
    /\ last.pre.update_location = Some("src/main.rs:28")
    /\ cells[last.cell].value # last.pre.value

\* C7: map(f) returns None on an empty cell and Some(f(v)) on a cell holding
\* v, and leaves value, location and name as they were, so get() is the same
\* before and after.
C7_MapPure ==
    last.op = "map" =>
        /\ last.ret = IF last.pre.value = None
                      THEN None
                      ELSE Some(ApplyMap(last.f, last.pre.value[1]))
        /\ cells[last.cell] = last.pre
        /\ get(cells[last.cell]) = get(last.pre)
        /\ panic = None

\* map has returned a result different from the value the cell holds.
C7_Witness ==
    /\ last.op = "map"
    /\ is_some(last.pre.value)
    /\ is_some(last.ret)
    /\ last.ret # last.pre.value

\* C8: reset() on an empty cell changes nothing and does not fail, and a
\* reset() right after a reset() of the same cell changes nothing.
C8_ResetIdempotent ==
    [][ /\ (last'.op = "reset" /\ cells[last'.cell].value = None)
            => (cells' = cells /\ panic' = None)
        /\ (last.op = "reset" /\ last'.op = "reset" /\ last'.cell = last.cell)
            => (cells' = cells /\ panic' = None) ]_vars

\* reset has run on a cell that was already empty.
C8_Witness ==
    /\ last.op = "reset"
    /\ last.pre.value = None
    /\ cells[last.cell] = last.pre

\* C9: reset() leaves value and location both absent, and a cell with both
\* absent keeps both absent through every call other than an update of that
\* cell (get, get_with_location, map, map_mut, reset).
C9_EmptyUntilUpdate ==
    [][ /\ last'.op = "reset" => Empty(cells'[last'.cell])
        /\ \A c \in CellIds :
             (Empty(cells[c]) /\ ~(last'.op = "update" /\ last'.cell = c))
                => Empty(cells'[c]) ]_vars

\* map_mut has run on an empty cell and left it empty.
C9_Witness ==
    /\ last.op = "map_mut"
    /\ Empty(last.pre)
    /\ Empty(cells[last.cell])

\* C10: get(), get_with_location() and an assert_updated() that passes leave
\* the cell's value, location and name as they were.
C10_Observers ==
    (\/ last.op \in {"get", "get_with_location"}
     \/ (last.op = "assert_updated" /\ panic = None)) =>
        /\ cells[last.cell].value = last.pre.value
        /\ cells[last.cell].update_location = last.pre.update_location
        /\ cells[last.cell].name = last.pre.name

\* get_with_location has returned the value and location of a written cell.
C10_Witness ==
    /\ last.op = "get_with_location"
    /\ is_some(last.pre.value)
    /\ is_some(last.ret)
    /\ is_some(cells[last.cell].value)

\* C11: get_with_location() returns Some((v, loc)) exactly when get() returns
\* Some(v), with the same v and loc the stored update_location, and None
\* exactly when get() returns None.
C11_GetWithLocation ==
    /\ \A c \in CellIds :
        get_with_location(cells[c]) =
            IF is_some(get(cells[c]))
            THEN Some(<<get(cells[c])[1], cells[c].update_location[1]>>)
            ELSE None
    /\ last.op = "get_with_location" =>
        last.ret = IF is_some(get(cells[last.cell]))
                   THEN Some(<<get(cells[last.cell])[1],
                               cells[last.cell].update_location[1]>>)
                   ELSE None

\* get_with_location has returned the value of a cell together with the
\* location left by map_mut.
C11_Witness ==
    /\ last.op = "get_with_location"
    /\ is_some(last.ret)
    /\ last.ret[1][2] = "src/main.rs:69"
    /\ Some(last.ret[1][1]) = get(cells[last.cell])

\* C12: in every reachable state a cell's name is the one given to new(name),
\* and a failing assert_updated reports a message with exactly that name.
C12_NameStable ==
    /\ \A c \in CellIds : cells[c].name = CellName(c)
    /\ (last.op = "assert_updated" /\ is_some(panic)) =>
        panic = Some("State variable '" \o CellName(last.cell) \o "' was not updated!")

\* assert_updated has failed on the dimensions cell after other calls.
C12_Witness ==
    /\ last.op = "assert_updated"
    /\ last.cell = "dimensions"
    /\ panic = Some("State variable 'battery_dimensions' was not updated!")
    /\ \E c \in CellIds : is_some(cells[c].value)

\* C13: an update, reset or map_mut of one cell leaves the value, location
\* and name of every other cell unchanged.
C13_CellsIndependent ==
    [][ \A c \in CellIds :
          (last'.op \in {"update", "reset", "map_mut"} /\ c # last'.cell)
              => cells'[c] = cells[c] ]_vars

\* temperature has been updated again after a reset while power_output is
\* empty and dimensions still holds what map_mut left.
C13_Witness ==
    /\ last.op = "update"
    /\ last.cell = "temperature"
    /\ Empty(last.pre)
    /\ Empty(cells["power_output"])
    /\ cells["dimensions"].update_location = Some("src/main.rs:69")

\* C14: the location recorded by update(v), and by map_mut(f) on a written
\* cell, is the call site of that write, so writes from two different call
\* sites leave different locations.
C14_LocationIsCallSite ==
    (\/ last.op = "update"
     \/ (last.op = "map_mut" /\ is_some(last.pre.value))) =>
        cells[last.cell].update_location = Some(Format(FILE, last.site))

----------------------------------------------------------------------------
(* Properties of the Battery methods and of fn main. *)

Written(st) == is_some(st.value) /\ is_some(st.update_location)

\* C15: when reset_tracked_states() has returned, temperature, power_output
\* and dimensions are all empty (value and location absent), whatever they
\* held before the call.
C15_ResetTrackedStates ==
    (\/ ctl.pc \in {"cycle:update_state", "main:160"}
     \/ last.site = 112) =>
        \A c \in CellIds : Empty(cells[c])

\* an arbitrary caller's reset_tracked_states has returned and its last reset
\* cleared a dimensions cell that held a value.
C15_Witness ==
    /\ ctl.client = "any"
    /\ ctl.pc = "cycle:update_state"
    /\ last.site = 112
    /\ is_some(last.pre.value)
    /\ \A c \in CellIds : Empty(cells[c])

\* C16: after reset_tracked_states() followed by update_state(..),
\* temperature and power_output are written and dimensions is empty, and
\* assert_all_updated() called at that point panics on the dimensions cell,
\* never on temperature or power_output, and never returns.
C16_AssertAllUpdatedFails ==
    /\ ctl.pc \in {"cycle:assert_all_updated", "main:163"} =>
        /\ Written(cells["temperature"])
        /\ Written(cells["power_output"])
        /\ Empty(cells["dimensions"])
    /\ ctl.ra = "cycle:end" =>
        /\ ctl.pc \in {"116", "117", "118"}
        /\ is_some(panic) =>
            /\ last.site = 118
            /\ last.cell = "dimensions"
            /\ panic = Some("State variable 'battery_dimensions' was not updated!")
        /\ last.site = 118 => is_some(panic)
    /\ ctl.pc # "cycle:end"

\* assert_all_updated, called after reset_tracked_states and update_state, has
\* panicked at its third assertion.
C16_Witness ==
    /\ ctl.ra = "cycle:end"
    /\ is_some(panic)
    /\ last.op = "assert_updated"
    /\ last.site = 118
    /\ Written(cells["temperature"])

\* C17: in main, dimensions is written only at line 148, before the loop, and
\* the value written there is still the cell's value when a time step checks
\* the cell at line 177.
C17_DimensionsSetOnce ==
    InMain =>
        /\ (last.op = "update" /\ last.cell = "dimensions") => last.site = 148
        /\ ctl.pc = "main:177" => get(cells["dimensions"]) = Some(DIMENSIONS)

\* C18: in main, a cell's assert_updated comes after a write of the cell, and
\* a cell's value is read (get, get_with_location, map) only after the
\* assert_updated of that cell has passed since the last reset.
C18_CheckBeforeRead ==
    InMain =>
        /\ last.op = "assert_updated" => ctl.writes[last.cell] >= 1
        /\ last.op \in {"get", "get_with_location", "map"} =>
            last.cell \in ctl.checked

\* C19: in main, every cell receives at most one update() between two
\* consecutive calls of reset_tracked_states() and exactly one per loop
\* iteration, and no update() is applied to a cell that already holds a value.
C19_OneUpdatePerCycle ==
    InMain =>
        /\ \A c \in CellIds : ctl.writes[c] <= 1
        /\ (ctl.pc = "main:151" /\ ctl.step >= 1) =>
            \A c \in CellIds : ctl.writes[c] = 1
        /\ last.op = "update" => last.pre.value = None

\* main is at the end of its second iteration and dimensions has just been
\* written again, once, on an empty cell.
C19_Witness ==
    /\ InMain
    /\ ctl.pc = "main:151"
    /\ ctl.step = 2
    /\ last.op = "update"
    /\ last.site = 179
    /\ last.pre.value = None
    /\ \A c \in CellIds : ctl.writes[c] = 1

\* The statements of main in the order of one pass.
MainOrder ==
    <<"main:148", "main:151", "main:155", "110", "111", "112", "main:160",
      "98", "104", "main:163", "123", "129", "135", "main:173", "main:174",
      "main:177", "main:179", "main:184", "main:189", "main:195", "main:201",
      "main:203", "main:end">>

Position(pc) == CHOOSE i \in 1..Len(MainOrder) : MainOrder[i] = pc

\* An upper bound on the steps main still has to take.
Remaining(c) ==
    (3 - c.step) * Len(MainOrder) + (Len(MainOrder) - Position(c.pc))

\* C20: main never panics, takes a step in every state before its end, gets
\* nearer to its end with every step and ends after exactly 3 iterations;
\* every assert_updated it runs is on a written cell, all three cells are
\* written at the end of each iteration, and the map(..).unwrap() and
\* get().unwrap() after the loop run on a written temperature cell.
C20_MainTerminates ==
    /\ [](InMain =>
            /\ panic = None
            /\ ctl.step \in 0..3
            /\ ctl.pc # "main:end" => ENABLED Next
            /\ ctl.pc = "main:end" => ctl.step = 3
            /\ last.op = "assert_updated" => is_some(last.pre.value)
            /\ (ctl.pc = "main:151" /\ ctl.step >= 1) =>
                \A c \in CellIds : Written(cells[c])
            /\ last.site \in {189, 201} =>
                (last.cell = "temperature" /\ is_some(last.pre.value)))
    /\ [][InMain => Remaining(ctl') < Remaining(ctl)]_vars

\* main has reached its end after three iterations and temperature holds the
\* value map_mut left: 300 + 30 + 5 kelvin.
C20_Witness ==
    /\ InMain
    /\ ctl.pc = "main:end"
    /\ ctl.step = 3
    /\ panic = None
    /\ get(cells["temperature"]) = Some(33500)
    /\ cells["temperature"].update_location = Some("src/main.rs:69")

====
